---- MODULE Spec2Model ----
\* Event planner: the Event value object (event.py) and the EventManager
\* store (event_manager.py) with its JSON file.
EXTENDS Integers, Sequences, FiniteSets, TLC

VARIABLES
    events,     \* EventManager._events: the in-memory list of Event
    file,       \* the file at storage_path
    op,         \* name of the last call made
    arg,        \* argument(s) of the last call
    ret,        \* outcome of the last call: Return(value) or Raise(exception)
    warned,     \* whether the last call emitted the UserWarning
    pre         \* _events and the file as they were when the last call started

vars == <<events, file, op, arg, ret, warned, pre>>

\* ---------------------------------------------------------------- bounds

\* Timestamps are the instants 0..MaxTime.
MaxTime == 3
\* The events given to add_event lie within the instants 0..MaxStoredTime.
MaxStoredTime == 2
\* add_event is not called on a store that already holds MaxEvents events.
MaxEvents == 3

Times == 0..MaxTime
\* The UUID values the model draws ids from.
UUIDs == {1, 2, 3}
Names == {"Event 1"}
None == "None"

\* ------------------------------------------------------- call outcomes

Return(v) == [val |-> v]
Raise(e) == [exc |-> e]
Raised(r) == "exc" \in DOMAIN r

\* ------------------------------------------------------------ event.py

\* str(uuid) and UUID(string)
str(id) == ToString(id)
UUID(s) == CHOOSE id \in UUIDs : str(id) = s

\* datetime.isoformat() and datetime.fromisoformat(string)
isoformat(t) == ToString(t)
fromisoformat(s) == CHOOSE t \in Times : isoformat(t) = s

\* Event.__post_init__, buggy variant: the check for identical instants is
\* missing
post_init_allows_equal(self) ==
    IF self.start_time > self.end_time
    THEN Raise("ValueError")
    ELSE Return(self)

\* Event.__post_init__: the validation run by every construction
post_init(self) ==
    IF self.start_time > self.end_time
    THEN Raise("ValueError")
    ELSE IF self.start_time = self.end_time
         THEN Raise("ValueError")
         ELSE Return(self)

\* Event(name, start_time, end_time, id, description): the dataclass
\* constructor, which assigns the fields and then runs __post_init__
Event(name, start_time, end_time, id, description) ==
    post_init([name |-> name, start_time |-> start_time, end_time |-> end_time,
               id |-> id, description |-> description])

\* Event.overlaps, buggy variant: the first starts_during clause closed at
\* the other event's end
overlaps_closed_end(self, other_event) ==
    IF self.id = other_event.id
    THEN Raise("ValueError")
    ELSE LET starts_during ==
                 \/ (other_event.start_time <= self.start_time
                         /\ self.start_time <= other_event.end_time)
                 \/ (self.start_time <= other_event.start_time
                         /\ other_event.start_time < self.end_time)
             is_encompassing ==
                 \/ (self.start_time <= other_event.start_time
                         /\ self.end_time >= other_event.end_time)
                 \/ (other_event.start_time <= self.start_time
                         /\ other_event.end_time >= self.end_time)
         IN  Return(starts_during \/ is_encompassing)

\* Event.overlaps, buggy variant: only "self starts during the other" and
\* "self encompasses the other" are tested
overlaps_one_sided(self, other_event) ==
    IF self.id = other_event.id
    THEN Raise("ValueError")
    ELSE LET starts_during ==
                 (other_event.start_time <= self.start_time
                         /\ self.start_time < other_event.end_time)
             is_encompassing ==
                 (self.start_time <= other_event.start_time
                         /\ self.end_time >= other_event.end_time)
         IN  Return(starts_during \/ is_encompassing)

\* Event.overlaps, buggy variant: the self-comparison guard compares whole
\* events instead of ids
overlaps_guard_by_value(self, other_event) ==
    IF self = other_event
    THEN Raise("ValueError")
    ELSE LET starts_during ==
                 \/ (other_event.start_time <= self.start_time
                         /\ self.start_time < other_event.end_time)
                 \/ (self.start_time <= other_event.start_time
                         /\ other_event.start_time < self.end_time)
             is_encompassing ==
                 \/ (self.start_time <= other_event.start_time
                         /\ self.end_time >= other_event.end_time)
                 \/ (other_event.start_time <= self.start_time
                         /\ other_event.end_time >= self.end_time)
         IN  Return(starts_during \/ is_encompassing)

\* Event.overlaps(self, other_event)
overlaps(self, other_event) ==
    IF self.id = other_event.id
    THEN Raise("ValueError")
    ELSE LET starts_during ==
                 \/ (other_event.start_time <= self.start_time
                         /\ self.start_time < other_event.end_time)
                 \/ (self.start_time <= other_event.start_time
                         /\ other_event.start_time < self.end_time)
             is_encompassing ==
                 \/ (self.start_time <= other_event.start_time
                         /\ self.end_time >= other_event.end_time)
                 \/ (other_event.start_time <= self.start_time
                         /\ other_event.end_time >= self.end_time)
         IN  Return(starts_during \/ is_encompassing)

\* Event.to_dict
to_dict(self) ==
    [id |-> str(self.id), name |-> self.name,
     start_time |-> isoformat(self.start_time),
     end_time |-> isoformat(self.end_time),
     description |-> self.description]

\* Event.from_dict(data); uuid4 is the value uuid4() returns in this call.
\* data['name'], data['start_time'] and data['end_time'] raise KeyError on a
\* missing key, while the arguments are built, before the Event is.
from_dict(data, uuid4) ==
    IF {"name", "start_time", "end_time"} \subseteq DOMAIN data
    THEN Event(data.name,
               fromisoformat(data.start_time),
               fromisoformat(data.end_time),
               UUID(IF "id" \in DOMAIN data THEN data.id ELSE str(uuid4)),
               IF "description" \in DOMAIN data THEN data.description ELSE None)
    ELSE Raise("KeyError")

\* The valid Event objects: every Event a construction returns
ValidEvents ==
    { r.val : r \in { x \in { Event(n, s, e, id, None) :
                                n \in Names, s \in Times, e \in Times, id \in UUIDs } :
                        ~Raised(x) } }

\* The events add_event is called with
AddableEvents == {e \in ValidEvents : e.end_time <= MaxStoredTime}

\* The records from_dict is applied to: to_dict's keys, "id" optional
Records ==
    [id : {str(id) : id \in UUIDs}, name : Names,
     start_time : {isoformat(t) : t \in Times},
     end_time : {isoformat(t) : t \in Times}, description : {None}]
    \cup
    [name : Names, start_time : {isoformat(t) : t \in Times},
     end_time : {isoformat(t) : t \in Times}, description : {None}]

\* ---------------------------------------------------- event_manager.py

\* The file at storage_path: absent, present but not JSON (an empty
\* temporary file, say), or the JSON list written by _save_events
NoFile == [exists |-> FALSE, json |-> FALSE, data |-> <<>>]
NotJson == [exists |-> TRUE, json |-> FALSE, data |-> <<>>]
JsonFile(records) == [exists |-> TRUE, json |-> TRUE, data |-> records]

\* The records of the file that carry no "id": from_dict gives each of them
\* the value of a uuid4() call
MissingIds(f) == {i \in 1..Len(f.data) : "id" \notin DOMAIN f.data[i]}

\* EventManager._load_events: the list _events holds afterwards, from the
\* list it held before (current); fresh[i] is the uuid4() value that record
\* i, carrying no id, receives (for a record with an id the value is dropped).
\* Only json.JSONDecodeError is caught: what from_dict raises on the first bad
\* record leaves the method.
load_events(f, current, fresh) ==
    IF ~f.exists
    THEN Return(current)
    ELSE IF ~f.json
         THEN Return(<<>>)
         ELSE LET uuid4(i) == IF i \in DOMAIN fresh
                              THEN fresh[i]
                              ELSE CHOOSE u \in UUIDs : TRUE
                  loaded == [i \in 1..Len(f.data) |-> from_dict(f.data[i], uuid4(i))]
                  failed == {i \in 1..Len(f.data) : Raised(loaded[i])}
              IN  IF failed # {}
                  THEN loaded[CHOOSE i \in failed : \A j \in failed : i <= j]
                  ELSE Return([i \in 1..Len(f.data) |-> loaded[i].val])

\* EventManager._save_events: the file after the write
save_events(evts) == JsonFile([i \in 1..Len(evts) |-> to_dict(evts[i])])

\* EventManager.has_conflict: the loop over self._events
RECURSIVE has_conflict(_, _)
has_conflict(evts, event) ==
    IF evts = <<>>
    THEN Return(FALSE)
    ELSE LET r == overlaps(Head(evts), event)
         IN  IF Raised(r)
             THEN r
             ELSE IF r.val
                  THEN Return(TRUE)
                  ELSE has_conflict(Tail(evts), event)

\* A dict: a function from its keys. EmptyDict is {}, Put(d, k, v) is d[k] = v
EmptyDict == [k \in {} |-> <<>>]
Put(d, k, v) == [x \in DOMAIN d \cup {k} |-> IF x = k THEN v ELSE d[x]]

\* find_conflicts, the list comprehension:
\* [other_event for other_event in rest if event.overlaps(other_event)]
RECURSIVE conflicting_events(_, _)
conflicting_events(event, rest) ==
    IF rest = <<>>
    THEN Return(<<>>)
    ELSE LET r == overlaps(event, Head(rest))
         IN  IF Raised(r)
             THEN r
             ELSE LET t == conflicting_events(event, Tail(rest))
                  IN  IF Raised(t)
                      THEN t
                      ELSE Return(IF r.val THEN <<Head(rest)>> \o t.val ELSE t.val)

\* find_conflicts, the inner loop recording the inverse relation:
\* for other_event in conflicting: conflicts[other_id].append(event)
RECURSIVE add_inverse(_, _, _)
add_inverse(conflicts, event, conflicting) ==
    IF conflicting = <<>>
    THEN conflicts
    ELSE LET other_id == str(Head(conflicting).id)
             c == IF other_id \notin DOMAIN conflicts
                  THEN Put(conflicts, other_id, <<>>)
                  ELSE conflicts
         IN  add_inverse(Put(c, other_id, Append(c[other_id], event)),
                         event, Tail(conflicting))

\* find_conflicts, buggy variant of the loop body: the entry is written
\* even when the event has no conflict
record_conflicts_unguarded(conflicts, event, conflicting) ==
    add_inverse(Put(conflicts, str(event.id), conflicting), event, conflicting)

\* find_conflicts, the body of the outer loop once conflicting_events is
\* computed: "if conflicting_events:" and what it guards
record_conflicts(conflicts, event, conflicting) ==
    IF conflicting # <<>>
    THEN add_inverse(Put(conflicts, str(event.id), conflicting), event, conflicting)
    ELSE conflicts

\* find_conflicts, the outer loop from index i on
RECURSIVE find_conflicts_from(_, _, _)
find_conflicts_from(evts, i, conflicts) ==
    IF i > Len(evts)
    THEN Return(conflicts)
    ELSE LET c == conflicting_events(evts[i], SubSeq(evts, i + 1, Len(evts)))
         IN  IF Raised(c)
             THEN c
             ELSE find_conflicts_from(evts, i + 1,
                                      record_conflicts(conflicts, evts[i], c.val))

\* EventManager.find_conflicts
find_conflicts(evts) == find_conflicts_from(evts, 1, EmptyDict)

\* list_events, buggy variant of the sort key: start_time alone
key_le_start_only(a, b) == a.start_time <= b.start_time

\* list_events, the order of the sort key (event.start_time, event.end_time):
\* whether a's key is at most b's, tuples being compared left to right
key_le(a, b) ==
    \/ a.start_time < b.start_time
    \/ (a.start_time = b.start_time /\ a.end_time <= b.end_time)

\* sorted() is stable: an element goes after every element already placed
\* whose key is at most its own (those form a prefix of the sorted list)
insert_sorted(placed, event) ==
    LET n == Cardinality({k \in 1..Len(placed) : key_le(placed[k], event)})
    IN  SubSeq(placed, 1, n) \o <<event>> \o SubSeq(placed, n + 1, Len(placed))

\* EventManager.list_events: sorted(self._events, key=...), a new list
RECURSIVE list_events(_)
list_events(evts) ==
    IF evts = <<>>
    THEN <<>>
    ELSE insert_sorted(list_events(SubSeq(evts, 1, Len(evts) - 1)), evts[Len(evts)])

\* An Optional[datetime] argument: <<>> is None, <<t>> is the datetime t.
\* A datetime is always true in a condition, so "if start:" tests for None.
Given(x) == x # <<>>
OptionalTimes == {<<>>} \cup {<<t>> : t \in Times}

\* list_events_between, buggy variant: the bounds are exclusive
list_events_between_strict(evts, start, end) ==
    LET sorted == list_events(evts)
        after_start == IF Given(start)
                       THEN SelectSeq(sorted, LAMBDA e : e.end_time > start[1])
                       ELSE sorted
    IN  IF Given(end)
        THEN SelectSeq(after_start, LAMBDA e : e.start_time < end[1])
        ELSE after_start

\* EventManager.list_events_between(start, end)
list_events_between(evts, start, end) ==
    LET sorted == list_events(evts)
        after_start == IF Given(start)
                       THEN SelectSeq(sorted, LAMBDA e : e.end_time >= start[1])
                       ELSE sorted
    IN  IF Given(end)
        THEN SelectSeq(after_start, LAMBDA e : e.start_time <= end[1])
        ELSE after_start

\* ------------------------------------------------------------ the state

State == [events |-> events, file |-> file]

\* A manager constructed over a path with no file, or over a fresh empty
\* temporary file (which is not JSON): _events is empty either way
Init ==
    /\ file \in {NoFile, NotJson}
    /\ events = <<>>
    /\ op = "init"
    /\ arg = <<>>
    /\ ret = Return(None)
    /\ warned = FALSE
    /\ pre = [events |-> <<>>, file |-> file]

\* EventManager(storage_path): __post_init__ loads the file. Every CLI
\* command constructs its manager this way.
NewManager ==
    \E fresh \in [MissingIds(file) -> UUIDs] :
        LET r == load_events(file, <<>>, fresh)
        IN  /\ op' = "init"
            /\ arg' = <<>>
            /\ ret' = IF Raised(r) THEN r ELSE Return(None)
            /\ events' = IF Raised(r) THEN events ELSE r.val
            /\ warned' = FALSE
            /\ pre' = State
            /\ UNCHANGED file

\* EventManager.add_event(event)
AddEvent(event) ==
    /\ Len(events) < MaxEvents
    /\ LET c == has_conflict(events, event)
       IN  /\ op' = "add_event"
           /\ arg' = event
           /\ pre' = State
           /\ IF Raised(c)
              THEN /\ ret' = c
                   /\ warned' = FALSE
                   /\ UNCHANGED <<events, file>>
              ELSE /\ warned' = c.val
                   /\ events' = Append(events, event)
                   /\ file' = save_events(events')
                   /\ ret' = Return(TRUE)

\* EventManager.remove_event, buggy variant: the list is filtered but never
\* saved
RemoveEventUnsaved(event_id) ==
    LET kept == SelectSeq(events, LAMBDA evt : str(evt.id) # event_id)
    IN  /\ op' = "remove_event"
        /\ arg' = event_id
        /\ pre' = State
        /\ warned' = FALSE
        /\ events' = kept
        /\ ret' = Return(Len(kept) < Len(events))
        /\ UNCHANGED file

\* EventManager.remove_event(event_id)
RemoveEvent(event_id) ==
    LET initial_length == Len(events)
        kept == SelectSeq(events, LAMBDA evt : str(evt.id) # event_id)
    IN  /\ op' = "remove_event"
        /\ arg' = event_id
        /\ pre' = State
        /\ warned' = FALSE
        /\ events' = kept
        /\ IF Len(kept) < initial_length
           THEN /\ file' = save_events(kept)
                /\ ret' = Return(TRUE)
           ELSE /\ ret' = Return(FALSE)
                /\ UNCHANGED file

\* EventManager.clear_events, buggy variant: the file is left in place
ClearEventsKeepsFile ==
    /\ op' = "clear_events"
    /\ arg' = <<>>
    /\ pre' = State
    /\ warned' = FALSE
    /\ events' = <<>>
    /\ ret' = Return(None)
    /\ UNCHANGED file

\* EventManager.clear_events()
ClearEvents ==
    /\ op' = "clear_events"
    /\ arg' = <<>>
    /\ pre' = State
    /\ warned' = FALSE
    /\ events' = <<>>
    /\ file' = IF file.exists THEN NoFile ELSE file
    /\ ret' = Return(None)

\* EventManager.find_conflicts()
FindConflicts ==
    /\ op' = "find_conflicts"
    /\ arg' = <<>>
    /\ pre' = State
    /\ warned' = FALSE
    /\ ret' = find_conflicts(events)
    /\ UNCHANGED <<events, file>>

\* The ids remove_event is called with: the string of a UUID, or any other
\* string
EventIds == {str(id) : id \in UUIDs} \cup {"nonexistent-id"}

Next ==
    \/ NewManager
    \/ \E event \in AddableEvents : AddEvent(event)
    \/ \E event_id \in EventIds : RemoveEvent(event_id)
    \/ ClearEvents
    \/ FindConflicts

Spec == Init /\ [][Next]_vars

\* ------------------------------------------- Event taken on its own

\* Event(...) called directly; the id is the one uuid4() supplies
NewEvent(name, start_time, end_time, id) ==
    /\ op' = "Event"
    /\ arg' = [name |-> name, start_time |-> start_time, end_time |-> end_time]
    /\ ret' = Event(name, start_time, end_time, id, None)
    /\ pre' = State
    /\ UNCHANGED <<events, file, warned>>

\* Event.from_dict(data)
EventFromDict(data, uuid4) ==
    /\ op' = "from_dict"
    /\ arg' = data
    /\ ret' = from_dict(data, uuid4)
    /\ pre' = State
    /\ UNCHANGED <<events, file, warned>>

\* self.overlaps(other_event)
EventOverlaps(self, other_event) ==
    /\ op' = "overlaps"
    /\ arg' = <<self, other_event>>
    /\ ret' = overlaps(self, other_event)
    /\ pre' = State
    /\ UNCHANGED <<events, file, warned>>

\* A manager over an absent file, an empty temporary file, or a file that
\* holds one saved event
InitEvent ==
    /\ \/ file \in {NoFile, NotJson} /\ events = <<>>
       \/ \E e \in AddableEvents : events = <<e>> /\ file = save_events(events)
    /\ op = "init"
    /\ arg = <<>>
    /\ ret = Return(None)
    /\ warned = FALSE
    /\ pre = [events |-> events, file |-> file]

NextEvent ==
    \/ \E n \in Names, s \in Times, e \in Times, id \in UUIDs : NewEvent(n, s, e, id)
    \/ \E data \in Records, uuid4 \in UUIDs : EventFromDict(data, uuid4)
    \/ \E a \in ValidEvents, b \in ValidEvents : EventOverlaps(a, b)

SpecEvent == InitEvent /\ [][NextEvent]_vars

\* EventManager.list_events()
ListEvents ==
    /\ op' = "list_events"
    /\ arg' = <<>>
    /\ pre' = State
    /\ warned' = FALSE
    /\ ret' = Return(list_events(events))
    /\ UNCHANGED <<events, file>>

\* EventManager.list_events_between(start, end)
ListEventsBetween(start, end) ==
    /\ op' = "list_events_between"
    /\ arg' = [start |-> start, end |-> end]
    /\ pre' = State
    /\ warned' = FALSE
    /\ ret' = Return(list_events_between(events, start, end))
    /\ UNCHANGED <<events, file>>

\* The events the CLI's add command builds: Event(...) without an id, so
\* that uuid4() supplies one no stored event has (here the least such)
FreshEvents ==
    LET stored == {events[i].id : i \in 1..Len(events)}
    IN  {e \in AddableEvents : e.id \notin stored /\ \A u \in UUIDs \ stored : e.id <= u}

\* A store filled by the CLI's add command, and listed
NextList ==
    \/ \E event \in FreshEvents : AddEvent(event)
    \/ ListEvents
    \/ \E start \in OptionalTimes, end \in OptionalTimes : ListEventsBetween(start, end)

SpecList == Init /\ [][NextList]_vars

\* ------------------------------------- a manager over a file found on disk

\* A file holds at most MaxFileRecords records.
MaxFileRecords == 2

\* The records a JSON file found at storage_path may hold: those to_dict
\* writes, with or without "id", with start before end or not, and the same
\* without "name"
FileRecords ==
    {r \in Records : /\ fromisoformat(r.start_time) <= MaxStoredTime
                     /\ fromisoformat(r.end_time) <= MaxStoredTime}
    \cup
    [id : {str(id) : id \in UUIDs},
     start_time : {isoformat(t) : t \in 0..MaxStoredTime},
     end_time : {isoformat(t) : t \in 0..MaxStoredTime}, description : {None}]

\* A manager holding no event, over a path where something else has left no
\* file, a file that is not JSON, or a JSON list of records
InitLoad ==
    /\ file \in {NoFile, NotJson}
           \cup {JsonFile(rs) : rs \in UNION {[1..n -> FileRecords] : n \in 0..MaxFileRecords}}
    /\ events = <<>>
    /\ op = "init"
    /\ arg = <<>>
    /\ ret = Return(None)
    /\ warned = FALSE
    /\ pre = [events |-> <<>>, file |-> NoFile]

NextLoad == NewManager

SpecLoad == InitLoad /\ [][NextLoad]_vars

\* ------------------------------------------------------------ properties

\* Whether event e is in the list the mapping d holds under key k
InList(d, k, e) == k \in DOMAIN d /\ \E n \in 1..Len(d[k]) : d[k][n] = e

\* find_conflicts() returned a mapping
FoundConflicts == op = "find_conflicts" /\ ~Raised(ret)

\* C1: find_conflicts() is symmetric: whenever the list under A's id
\* contains B, the list under B's id contains A, for any stored events A, B.
ConflictsSymmetric ==
    FoundConflicts =>
        \A i, j \in 1..Len(events) :
            InList(ret.val, str(events[i].id), events[j])
                => InList(ret.val, str(events[j].id), events[i])

\* C2: find_conflicts() is complete: for every two distinct stored events
\* that overlap, each is in the list under the other's id.
ConflictsComplete ==
    FoundConflicts =>
        \A i, j \in 1..Len(events) :
            (i # j /\ overlaps(events[i], events[j]) = Return(TRUE))
                => /\ InList(ret.val, str(events[i].id), events[j])
                   /\ InList(ret.val, str(events[j].id), events[i])

\* C3: add_event always inserts: it returns True and _events is the previous
\* list with the event appended; it never raises.
AddAlwaysSucceeds ==
    op = "add_event" =>
        /\ ret = Return(TRUE)
        /\ events = Append(pre.events, arg)

\* The half-open rule for [s1,e1) and [s2,e2)
HalfOpenOverlap(a, b) == a.start_time < b.end_time /\ b.start_time < a.end_time

\* C4: for two valid events with distinct ids, overlaps returns true exactly
\* when s1 < e2 and s2 < e1.
OverlapsIsHalfOpen ==
    (op = "overlaps" /\ arg[1].id # arg[2].id)
        => ret = Return(HalfOpenOverlap(arg[1], arg[2]))

\* Two events that only touch were compared and found not to overlap.
TouchingCompared ==
    /\ op = "overlaps"
    /\ arg[1].id # arg[2].id
    /\ arg[1].end_time = arg[2].start_time
    /\ ret = Return(FALSE)

\* C5: overlaps is symmetric: for events a, b with distinct ids,
\* a.overlaps(b) equals b.overlaps(a).
OverlapsSymmetric ==
    (op = "overlaps" /\ arg[1].id # arg[2].id)
        => ret = overlaps(arg[2], arg[1])

\* A partial overlap was found, the later event being the receiver.
PartialOverlapCompared ==
    /\ op = "overlaps"
    /\ arg[1].id # arg[2].id
    /\ arg[2].start_time < arg[1].start_time
    /\ arg[1].start_time < arg[2].end_time
    /\ arg[2].end_time < arg[1].end_time
    /\ ret = Return(TRUE)

\* C6: overlaps raises ValueError whenever the two events have the same id,
\* whatever their spans, and changes nothing.
SameIdRaises ==
    (op = "overlaps" /\ arg[1].id = arg[2].id)
        => /\ ret = Raise("ValueError")
           /\ State = pre

\* Two different events carrying one id were compared, and the call raised.
SameIdOtherSpanCompared ==
    /\ op = "overlaps"
    /\ arg[1].id = arg[2].id
    /\ arg[1] # arg[2]
    /\ ~HalfOpenOverlap(arg[1], arg[2])
    /\ Raised(ret)

\* The start and end instants a construction call was given
GivenStart == IF op = "from_dict" THEN fromisoformat(arg.start_time) ELSE arg.start_time
GivenEnd == IF op = "from_dict" THEN fromisoformat(arg.end_time) ELSE arg.end_time

\* C7: constructing an Event, directly or through from_dict, raises
\* ValueError exactly when start_time >= end_time; otherwise it returns an
\* Event with the given instants, start_time < end_time.
ConstructionValidates ==
    op \in {"Event", "from_dict"} =>
        /\ ret = Raise("ValueError") <=> GivenStart >= GivenEnd
        /\ ~Raised(ret) =>
              /\ ret.val.start_time = GivenStart
              /\ ret.val.end_time = GivenEnd
              /\ ret.val.start_time < ret.val.end_time

\* from_dict was given a record whose instants are equal, and it raised.
EqualInstantsRejected ==
    /\ op = "from_dict"
    /\ GivenStart = GivenEnd
    /\ ret = Raise("ValueError")

\* C8: in find_conflicts()'s result an id is a key exactly when its event
\* overlaps another stored event, and no key maps to an empty list.
KeysAreConflictingIds ==
    FoundConflicts =>
        /\ \A i \in 1..Len(events) :
              str(events[i].id) \in DOMAIN ret.val
                  <=> \E j \in 1..Len(events) :
                          j # i /\ overlaps(events[i], events[j]) = Return(TRUE)
        /\ DOMAIN ret.val \subseteq {str(events[i].id) : i \in 1..Len(events)}
        /\ \A k \in DOMAIN ret.val : ret.val[k] # <<>>

\* find_conflicts() ran on three events of which two conflict and one
\* conflicts with nothing.
ConflictFreeEventLeftOut ==
    /\ FoundConflicts
    /\ Len(events) = 3
    /\ Cardinality(DOMAIN ret.val) = 2
    /\ \E i \in 1..3 : str(events[i].id) \notin DOMAIN ret.val

\* Whether some stored event's id string is event_id
IdStored(evts, event_id) == \E i \in 1..Len(evts) : str(evts[i].id) = event_id

\* C9: remove_event(event_id) returns True exactly when a stored id string
\* equals event_id; then every event with that id is gone, the others keep
\* their order, and the list is saved. Otherwise it returns False and neither
\* _events nor the file changes.
RemoveContract ==
    op = "remove_event" =>
        /\ ret = Return(IdStored(pre.events, arg))
        /\ events = SelectSeq(pre.events, LAMBDA evt : str(evt.id) # arg)
        /\ \A i \in 1..Len(events) : str(events[i].id) # arg
        /\ IF IdStored(pre.events, arg)
           THEN file = save_events(events)
           ELSE State = pre

\* remove_event took two events with one id out of a store of three.
RemovedTwoWithOneId ==
    /\ op = "remove_event"
    /\ ret = Return(TRUE)
    /\ Len(pre.events) = 3
    /\ Len(events) = 1

\* C10: the file tracks memory: a manager constructed over the file loads
\* exactly _events, in order; after clear_events() _events is empty and the
\* file is gone.
FileTracksMemory ==
    /\ \A fresh \in [MissingIds(file) -> UUIDs] :
           load_events(file, <<>>, fresh) = Return(events)
    /\ op = "clear_events" => (events = <<>> /\ ~file.exists)

\* clear_events() ran on a store of three saved events.
ClearedThree ==
    /\ op = "clear_events"
    /\ Len(pre.events) = 3
    /\ pre.file = save_events(pre.events)

\* list_events() or list_events_between() returned
Listed == op \in {"list_events", "list_events_between"}

\* How many times event e occurs in the list s
Count(s, e) == Cardinality({n \in 1..Len(s) : s[n] = e})

\* The position of event e in the list s (its first, should there be more)
Position(s, e) == CHOOSE n \in 1..Len(s) : s[n] = e /\ \A m \in 1..(n - 1) : s[m] # e

\* C11: list_events() returns exactly the stored events, ascending by
\* (start_time, end_time), ties on start broken by end and events with
\* identical keys in store order; the store is left as it was.
ListIsStableSort ==
    op = "list_events" =>
        LET r == ret.val
        IN  /\ Len(r) = Len(events)
            /\ \A i \in 1..Len(events) : Count(r, events[i]) = Count(events, events[i])
            /\ \A i, j \in 1..Len(r) :
                  i < j =>
                      \/ r[i].start_time < r[j].start_time
                      \/ /\ r[i].start_time = r[j].start_time
                         /\ r[i].end_time < r[j].end_time
                      \/ /\ r[i].start_time = r[j].start_time
                         /\ r[i].end_time = r[j].end_time
                         /\ Position(events, r[i]) <= Position(events, r[j])
            /\ State = pre

\* list_events() reordered a store of three: two events with one key kept
\* their store order, behind an event stored after them.
TieKeptBehindLaterEvent ==
    /\ op = "list_events"
    /\ Len(events) = 3
    /\ events[1].start_time = events[2].start_time
    /\ events[1].end_time = events[2].end_time
    /\ events[3].start_time = events[1].start_time
    /\ events[3].end_time < events[1].end_time
    /\ ret.val = <<events[3], events[1], events[2]>>

\* Whether event e meets the window of the last list_events_between call
InWindow(e) ==
    /\ (Given(arg.start) => e.end_time >= arg.start[1])
    /\ (Given(arg.end) => e.start_time <= arg.end[1])

\* C12: list_events_between(start, end) returns exactly the events of
\* list_events(), in that order, with end_time >= start when start is given
\* and start_time <= end when end is given; with no bound it is list_events().
BetweenIsInclusiveFilter ==
    op = "list_events_between" =>
        /\ ret.val = SelectSeq(list_events(events), InWindow)
        /\ (~Given(arg.start) /\ ~Given(arg.end)) => ret.val = list_events(events)
        /\ State = pre

\* A window from t to t returned an event ending at t and one starting at t.
BoundaryEventsKept ==
    /\ op = "list_events_between"
    /\ Given(arg.start)
    /\ arg.start = arg.end
    /\ \E i, j \in 1..Len(ret.val) :
           /\ ret.val[i].end_time = arg.start[1]
           /\ ret.val[j].start_time = arg.end[1]

\* Whether a record of a file is corrupt: a field is missing, or its start
\* is not before its end
CorruptRecord(r) ==
    \/ ~({"name", "start_time", "end_time"} \subseteq DOMAIN r)
    \/ fromisoformat(r.start_time) >= fromisoformat(r.end_time)

\* Whether the file is missing, not JSON, or holds a corrupt record
MissingOrCorrupt(f) ==
    \/ ~f.exists
    \/ ~f.json
    \/ \E i \in 1..Len(f.data) : CorruptRecord(f.data[i])

\* C13: constructing a manager over missing, unparseable or corrupt data
\* never raises and yields an empty collection.
LoadRecoversEmpty ==
    (op = "init" /\ MissingOrCorrupt(file)) =>
        /\ ~Raised(ret)
        /\ events = <<>>

\* C14: add_event emits the warning exactly when the new event overlaps an
\* event already stored, and appends and saves the event whether it warns
\* or not.
AddWarnsIffOverlap ==
    op = "add_event" =>
        /\ warned <=> \E i \in 1..Len(pre.events) : HalfOpenOverlap(pre.events[i], arg)
        /\ events = Append(pre.events, arg)
        /\ file = save_events(events)

\* C15: no two events of _events have the same id, whatever add_event,
\* remove_event and clear_events calls were made.
IdsUnique ==
    \A i, j \in 1..Len(events) : i # j => events[i].id # events[j].id

\* C16: find_conflicts() never compares two entries with one id, so it
\* always returns a mapping; it leaves _events and the file as they were.
FindConflictsReturns ==
    op = "find_conflicts" =>
        /\ ~Raised(ret)
        /\ State = pre

====
